---------------------------- MODULE Spec2Model ----------------------------
(***************************************************************************)
(* A model of the command dispatch core of atomiqlabs/server-base:         *)
(* the parameter parsers, the command registry (CommandHandler), the       *)
(* JSON-RPC adapter (JsonRpcServer) and the line adapter (TcpCliServer),   *)
(* all of src/src/rpc/JsonRpcServer.ts.                                    *)
(*                                                                         *)
(* JavaScript values are tagged records (field t), so that values of       *)
(* different JavaScript types can be compared.  Strings are TLA+ strings;  *)
(* their characters are read with SubSeq.                                  *)
(***************************************************************************)
EXTENDS Integers, Sequences, FiniteSets, TLC

(***************************************************************************)
(* Bounds of the model.                                                    *)
(***************************************************************************)
\* the most parameters a command of the materializer specification declares
MaxParams == 2
\* the most positional values (array elements, line tokens) of one request
MaxValues == 2

(***************************************************************************)
(* JavaScript values.                                                      *)
(***************************************************************************)
Undefined == [t |-> "undefined"]
Null == [t |-> "null"]
Str(s) == [t |-> "string", s |-> s]
Num(n) == [t |-> "number", n |-> n]
Bool(b) == [t |-> "boolean", b |-> b]
Arr(elems) == [t |-> "array", elems |-> elems]
\* an object with own properties DOMAIN fields
Obj(fields) == [t |-> "object", fields |-> fields]

\* `v == null` of JavaScript: true of null and of undefined
IsNullish(v) == v.t \in {"undefined", "null"}

\* the truthiness of a value (`!v`, `a && b`)
Truthy(v) ==
    CASE v.t \in {"undefined", "null"} -> FALSE
      [] v.t = "string" -> v.s # ""
      [] v.t = "number" -> v.n # 0
      [] v.t = "boolean" -> v.b
      [] OTHER -> TRUE

\* `o[k]` for a value o that is not null or undefined: own properties of an
\* object; the other values of the model (arrays, strings, numbers) have
\* none of the properties the code reads by name
Get(o, k) ==
    IF o.t = "object" /\ k \in DOMAIN o.fields THEN o.fields[k] ELSE Undefined

\* `arr[i]` with a 0-based index: undefined beyond the end
At(elems, i) == IF i + 1 <= Len(elems) THEN elems[i + 1] ELSE Undefined

(***************************************************************************)
(* Text helpers.                                                           *)
(***************************************************************************)
Char(s, i) == SubSeq(s, i, i)

Digits == {"0", "1", "2", "3", "4", "5", "6", "7", "8", "9"}

DigitValue(c) ==
    CASE c = "0" -> 0 [] c = "1" -> 1 [] c = "2" -> 2 [] c = "3" -> 3
      [] c = "4" -> 4 [] c = "5" -> 5 [] c = "6" -> 6 [] c = "7" -> 7
      [] c = "8" -> 8 [] c = "9" -> 9

IsWhite(c) == c \in {" ", "\t"}

\* `s.startsWith(p)`
StartsWith(s, p) == Len(s) >= Len(p) /\ SubSeq(s, 1, Len(p)) = p

\* `s.includes(p)`
Includes(s, p) ==
    \E i \in 1..(Len(s) - Len(p) + 1) : SubSeq(s, i, i + Len(p) - 1) = p

\* the first index of character c in s at or after from, 0 when there is none
RECURSIVE IndexOf(_, _, _)
IndexOf(s, c, from) ==
    IF from > Len(s) THEN 0
    ELSE IF Char(s, from) = c THEN from
    ELSE IndexOf(s, c, from + 1)

\* `s.replace(/"/g, '')`
RECURSIVE StripQuotes(_)
StripQuotes(s) ==
    IF s = "" THEN ""
    ELSE IF Char(s, 1) = "\"" THEN StripQuotes(Tail(s))
    ELSE Char(s, 1) \o StripQuotes(Tail(s))


\* the decimal text of a natural number (`String(n)`, `n.toString(10)`)
RECURSIVE NatToText(_)
NatToText(n) ==
    LET d == CHOOSE c \in Digits : DigitValue(c) = n % 10
    IN  IF n < 10 THEN d ELSE NatToText(n \div 10) \o d

\* the decimal text of an integer
IntToText(n) == IF n < 0 THEN "-" \o NatToText(0 - n) ELSE NatToText(n)

\* the number of leading characters of s that satisfy IsWhite
RECURSIVE LeadingWhite(_)
LeadingWhite(s) ==
    IF s # "" /\ IsWhite(Char(s, 1)) THEN 1 + LeadingWhite(Tail(s)) ELSE 0

\* the number of leading characters of s that are digits
RECURSIVE LeadingDigits(_)
LeadingDigits(s) ==
    IF s # "" /\ Char(s, 1) \in Digits THEN 1 + LeadingDigits(Tail(s)) ELSE 0

\* the value of a string of digits, read after the accumulated value acc
RECURSIVE DigitsValue(_, _)
DigitsValue(s, acc) ==
    IF s = "" THEN acc
    ELSE DigitsValue(Tail(s), 10 * acc + DigitValue(Char(s, 1)))

NaN == [nan |-> TRUE, n |-> 0]
Number(n) == [nan |-> FALSE, n |-> n]

\* `parseInt(s)` of a string without a radix prefix: leading white space is
\* skipped, a sign is read, then the longest run of digits; NaN when that
\* run is empty.  What follows the digits is ignored.
ParseIntText(s) ==
    LET t == SubSeq(s, LeadingWhite(s) + 1, Len(s))
        signed == t # "" /\ Char(t, 1) \in {"+", "-"}
        u == IF signed THEN Tail(t) ELSE t
        k == LeadingDigits(u)
        v == DigitsValue(SubSeq(u, 1, k), 0)
    IN  IF k = 0 THEN NaN
        ELSE IF signed /\ Char(t, 1) = "-" THEN Number(0 - v) ELSE Number(v)

\* `parseInt(data)` of a value that is not null or undefined: a string is
\* parsed, a number (an integer here) converts to its text and back, and
\* the text of a boolean holds no digit
ParseInt(data) ==
    CASE data.t = "string" -> ParseIntText(data.s)
      [] data.t = "number" -> Number(data.n)
      [] OTHER -> NaN

\* `s.trim()` on the right: the text without its trailing white space
RECURSIVE TrimRight(_)
TrimRight(s) ==
    IF s # "" /\ IsWhite(Char(s, Len(s))) THEN TrimRight(SubSeq(s, 1, Len(s) - 1))
    ELSE s

\* `BigInt(s)` of a string: the text is trimmed, the empty text is 0, a sign
\* and digits are an integer, and anything else is a SyntaxError (nan here)
BigIntText(s) ==
    LET t == TrimRight(SubSeq(s, LeadingWhite(s) + 1, Len(s)))
        signed == t # "" /\ Char(t, 1) \in {"+", "-"}
        u == IF signed THEN Tail(t) ELSE t
    IN  IF t = "" THEN Number(0)
        ELSE IF u = "" \/ LeadingDigits(u) # Len(u) THEN NaN
        ELSE IF Char(t, 1) = "-" THEN Number(0 - DigitsValue(u, 0))
        ELSE Number(DigitsValue(u, 0))

\* `BigInt(data)`: a string is parsed, an integer number and a boolean
\* convert; nan stands for the exception BigInt throws
ToBigInt(data) ==
    CASE data.t = "string" -> BigIntText(data.s)
      [] data.t = "number" -> Number(data.n)
      [] data.t = "boolean" -> Number(IF data.b THEN 1 ELSE 0)
      [] OTHER -> NaN

\* `String(data)` inside the message of the exception BigInt throws
TextOf(data) ==
    CASE data.t = "string" -> data.s
      [] data.t = "number" -> IntToText(data.n)
      [] data.t = "boolean" -> (IF data.b THEN "true" ELSE "false")
      [] OTHER -> "[object]"

(***************************************************************************)
(* The parameter parsers.  A parser is the record of the arguments it was  *)
(* constructed with; Parse applies it to a raw value and returns the typed *)
(* value (Ok) or the message of the Error it throws (Fail).                *)
(***************************************************************************)
NoBound == [has |-> FALSE, v |-> 0]
Bound(n) == [has |-> TRUE, v |-> n]

Ok(v) == [ok |-> TRUE, val |-> v, msg |-> ""]
Fail(m) == [ok |-> FALSE, val |-> Undefined, msg |-> m]

BigIntVal(n) == [t |-> "bigint", n |-> n]

NumberParser(min, max, optional) ==
    [kind |-> "number", min |-> min, max |-> max, optional |-> optional,
     values |-> <<>>]
BigIntParser(min, max, optional) ==
    [kind |-> "bigint", min |-> min, max |-> max, optional |-> optional,
     values |-> <<>>]
StringParser(minLength, maxLength, optional) ==
    [kind |-> "string", min |-> minLength, max |-> maxLength,
     optional |-> optional, values |-> <<>>]
EnumParser(possibleValues, optional) ==
    [kind |-> "enum", min |-> NoBound, max |-> NoBound, optional |-> optional,
     values |-> possibleValues]

\* a null check that ignores `optional`
MissingDataRequired(optional) == Fail("Data is null")

\* the null check every parser starts with
MissingData(optional) == IF optional THEN Ok(Null) ELSE Fail("Data is null")

\* a number parser whose bounds are exclusive
cmdNumberParserExclusive(p, data) ==
    IF IsNullish(data) THEN MissingData(p.optional)
    ELSE IF ParseInt(data).nan THEN Fail("Number is NaN or null")
    ELSE IF p.min.has /\ ParseInt(data).n <= p.min.v
         THEN Fail("Number must be greater than " \o IntToText(p.min.v))
    ELSE IF p.max.has /\ ParseInt(data).n >= p.max.v
         THEN Fail("Number must be less than " \o IntToText(p.max.v))
    ELSE Ok(Num(ParseInt(data).n))

\* cmdNumberParser(false, min, max, optional)(data)
cmdNumberParser(p, data) ==
    IF IsNullish(data) THEN MissingData(p.optional)
    ELSE LET num == ParseInt(data)
         IN  IF num.nan THEN Fail("Number is NaN or null")
             ELSE IF p.min.has /\ num.n < p.min.v
                  THEN Fail("Number must be greater than " \o IntToText(p.min.v))
             ELSE IF p.max.has /\ num.n > p.max.v
                  THEN Fail("Number must be less than " \o IntToText(p.max.v))
             ELSE Ok(Num(num.n))

\* cmdBigIntParser(min, max, optional)(data)
cmdBigIntParser(p, data) ==
    IF IsNullish(data) THEN MissingData(p.optional)
    ELSE LET num == ToBigInt(data)
         IN  IF num.nan
                  THEN Fail("Cannot convert " \o TextOf(data) \o " to a BigInt")
             ELSE IF p.min.has /\ num.n < p.min.v
                  THEN Fail("Number must be greater than " \o IntToText(p.min.v))
             ELSE IF p.max.has /\ num.n > p.max.v
                  THEN Fail("Number must be less than " \o IntToText(p.max.v))
             ELSE Ok(BigIntVal(num.n))

\* `possibleValues.join(", ")`
RECURSIVE JoinComma(_)
JoinComma(vs) ==
    IF vs = <<>> THEN ""
    ELSE IF Len(vs) = 1 THEN vs[1]
    ELSE vs[1] \o ", " \o JoinComma(Tail(vs))

\* cmdEnumParser(possibleValues, optional)(data)
cmdEnumParser(p, data) ==
    IF IsNullish(data) THEN MissingData(p.optional)
    ELSE IF ~(data.t = "string" /\ \E i \in 1..Len(p.values) : p.values[i] = data.s)
         THEN Fail("Invalid enum value, possible values: " \o JoinComma(p.values))
    ELSE Ok(data)

\* cmdStringParser(minLength, maxLength, optional)(data): `data.length` is
\* undefined for a value that is no string (no array reaches a parser here),
\* and a comparison with undefined is false
cmdStringParser(p, data) ==
    IF IsNullish(data) THEN MissingData(p.optional)
    ELSE IF p.min.has /\ data.t = "string" /\ Len(data.s) < p.min.v
         THEN Fail("Invalid string length, min length: " \o IntToText(p.min.v))
    ELSE IF p.max.has /\ data.t = "string" /\ Len(data.s) > p.max.v
         THEN Fail("Invalid string length, max length: " \o IntToText(p.max.v))
    ELSE Ok(data)

\* `args[key].parser(data)`
Parse(p, data) ==
    CASE p.kind = "number" -> cmdNumberParser(p, data)
      [] p.kind = "bigint" -> cmdBigIntParser(p, data)
      [] p.kind = "enum" -> cmdEnumParser(p, data)
      [] p.kind = "string" -> cmdStringParser(p, data)

(***************************************************************************)
(* Commands and the registry.                                              *)
(*                                                                         *)
(* A parameter is [key, base, description, parser]; a command's            *)
(* `runtime.args` is the sequence of its parameters in declaration order,  *)
(* the order of `for (key in args)` and of Object.keys(args) (no key of    *)
(* the model is an integer index).  The description of a command stands    *)
(* for the rest of a descriptor: two commands of one name differ by it.    *)
(* What `runtime.parser` (the execution) does is an input of the action    *)
(* that invokes it.                                                        *)
(***************************************************************************)
Param(key, base, description, parser) ==
    [key |-> key, base |-> base, description |-> description, parser |-> parser]

\* createCommand(cmd, description, runtime)
createCommand(cmd, description, args) ==
    [t |-> "command", cmd |-> cmd, description |-> description, args |-> args]

\* The registry `commands` is a plain object created by `{}`: its own
\* properties are kept here as the sequence of the commands in insertion
\* order, each under the key cmd.cmd.  A plain object also inherits the
\* members of Object.prototype, which a property read returns as well.
ObjectPrototypeNames ==
    {"constructor", "toString", "toLocaleString", "valueOf", "hasOwnProperty",
     "isPrototypeOf", "propertyIsEnumerable"}

\* a function inherited from Object.prototype: truthy, and without `runtime`
InheritedFunction == [t |-> "function"]

OwnNames(commands) == {commands[i].cmd : i \in 1..Len(commands)}

\* `commands[name]`
Lookup(commands, name) ==
    IF name \in OwnNames(commands)
    THEN commands[CHOOSE i \in 1..Len(commands) : commands[i].cmd = name]
    ELSE IF name \in ObjectPrototypeNames THEN InheritedFunction
    ELSE Undefined

\* `commands[cmd.cmd] = cmd`: a new key is added last; an existing key keeps
\* its place and takes the new value
Assign(commands, cmd) ==
    IF cmd.cmd \in OwnNames(commands)
    THEN [i \in 1..Len(commands) |->
            IF commands[i].cmd = cmd.cmd THEN cmd ELSE commands[i]]
    ELSE Append(commands, cmd)

\* the constructor of CommandHandler: `commands.forEach(cmd => ...)` on {}
RECURSIVE AssignAll(_, _)
AssignAll(commands, list) ==
    IF list = <<>> THEN commands
    ELSE AssignAll(Assign(commands, Head(list)), Tail(list))

NewRegistry(list) == AssignAll(<<>>, list)

\* registerCommand inserting into a copy of the registry: the call returns
\* true and the registry the adapters read is left as it was
registerCommandInCopy(commands, cmd) ==
    IF ~IsNullish(Lookup(commands, cmd.cmd))
    THEN [ret |-> FALSE, commands |-> commands]
    ELSE [ret |-> TRUE, commands |-> commands]

\* registerCommand(cmd): the value it returns and the registry it leaves
registerCommand(commands, cmd) ==
    IF ~IsNullish(Lookup(commands, cmd.cmd))
    THEN [ret |-> FALSE, commands |-> commands]
    ELSE [ret |-> TRUE, commands |-> Assign(commands, cmd)]

(***************************************************************************)
(* Argument materialization.                                               *)
(*                                                                         *)
(* A plan is the sequence of the parser invocations a loop of the code     *)
(* makes when none fails: [key, parser, data].  RunParsers makes them in   *)
(* order and stops at the first parser that throws.                        *)
(***************************************************************************)
Invocation(param, data) ==
    [key |-> param.key, parser |-> param.parser, data |-> data]

EmptyObject == [k \in {} |-> Undefined]

\* `"Parsing parameter '" + key + "': " + message`
ParsingParameterMessage(key, message) ==
    "Parsing parameter '" \o key \o "': " \o message

\* the result of running a plan: the object built so far (paramsObj), the
\* invocations made (calls: <<key, data>>), and the failure, if any
RECURSIVE RunParsers(_, _, _)
RunParsers(plan, obj, calls) ==
    IF plan = <<>>
    THEN [ok |-> TRUE, obj |-> obj, calls |-> calls, key |-> "", msg |-> ""]
    ELSE LET e == Head(plan)
             r == Parse(e.parser, e.data)
             made == Append(calls, <<e.key, e.data>>)
         IN  IF r.ok
             THEN RunParsers(Tail(plan), (e.key :> r.val) @@ obj, made)
             ELSE [ok |-> FALSE, obj |-> obj, calls |-> made,
                   key |-> e.key, msg |-> r.msg]

\* `Object.keys(args).filter(key => args[key].base)`
RECURSIVE BaseArgs(_)
BaseArgs(args) ==
    IF args = <<>> THEN <<>>
    ELSE IF Head(args).base THEN <<Head(args)>> \o BaseArgs(Tail(args))
    ELSE BaseArgs(Tail(args))

Min(a, b) == IF a < b THEN a ELSE b

\* the loop over the positional parameters of a params array:
\* `for (i = 0; i < baseArgs.length && i < params.length; i++)`
PositionalPlan(args, elems) ==
    LET baseArgs == BaseArgs(args)
    IN  [i \in 1..Min(Len(baseArgs), Len(elems)) |->
            Invocation(baseArgs[i], elems[i])]

\* the second loop of the array branch: every parameter that is not base
\* and not yet a key of paramsObj is parsed with undefined
RECURSIVE RemainingPlan(_, _)
RemainingPlan(args, done) ==
    IF args = <<>> THEN <<>>
    ELSE IF ~Head(args).base /\ Head(args).key \notin done
         THEN <<Invocation(Head(args), Undefined)>> \o RemainingPlan(Tail(args), done)
    ELSE RemainingPlan(Tail(args), done)

\* the plan of parseCommandParams for each shape of `params`
ParamsPlan(args, params) ==
    IF ~Truthy(params)
    THEN [i \in 1..Len(args) |-> Invocation(args[i], Undefined)]
    ELSE IF params.t = "array"
    THEN LET first == PositionalPlan(args, params.elems)
         IN  first \o RemainingPlan(args, {first[i].key : i \in 1..Len(first)})
    ELSE [i \in 1..Len(args) |-> Invocation(args[i], Get(params, args[i].key))]

\* the catch clauses of parseCommandParams: the failure r of a parser is
\* thrown again with the name of the parameter
Rethrown(r) ==
    [ok |-> r.ok, obj |-> r.obj, calls |-> r.calls, key |-> r.key,
     message |-> IF r.ok THEN "" ELSE ParsingParameterMessage(r.key, r.msg)]

\* parseCommandParams(command, params): the object it returns, or the
\* message of the Error it throws.  A value that is no command (an inherited
\* function) has no `runtime`, and reading `runtime.args` throws a TypeError.
parseCommandParams(command, params) ==
    IF command.t # "command"
    THEN [ok |-> FALSE, obj |-> EmptyObject, calls |-> <<>>, key |-> "",
          message |-> "Cannot read properties of undefined (reading 'args')"]
    ELSE IF Truthy(params) /\ params.t \notin {"array", "object"}
    THEN [ok |-> FALSE, obj |-> EmptyObject, calls |-> <<>>, key |-> "",
          message |-> "Parameters must be an array or object"]
    ELSE Rethrown(RunParsers(ParamsPlan(command.args, params), EmptyObject, <<>>))

(***************************************************************************)
(* The JSON-RPC adapter.                                                   *)
(***************************************************************************)
PARSE_ERROR == -32700
INVALID_REQUEST == -32600
METHOD_NOT_FOUND == -32601
INVALID_PARAMS == -32602
INTERNAL_ERROR == -32603
SERVER_ERROR == -32000

\* an Error object with its message
ErrorObj(message) == [t |-> "error", message |-> message]

\* what an execution (`runtime.parser`) does once invoked: it resolves with
\* a result, rejects with a value, throws a value before returning, or
\* returns a promise that never settles
Resolves(result) == [kind |-> "resolve", value |-> result]
Rejects(error) == [kind |-> "reject", value |-> error]
Throws(error) == [kind |-> "throw", value |-> error]
Hangs == [kind |-> "hang", value |-> Undefined]

ErrorResponse(code, message, data, id) ==
    [jsonrpc |-> "2.0", kind |-> "error", code |-> code, message |-> message,
     data |-> data, result |-> Undefined, id |-> id]

ResultResponse(result, id) ==
    [jsonrpc |-> "2.0", kind |-> "result", code |-> 0, message |-> "",
     data |-> Undefined, result |-> result, id |-> id]

\* What handleJsonRpcRequest has done when it returns or awaits: the
\* response it returns (when it is not pending on the execution), whether it
\* read the registry (looked) and the value it found there, the parser
\* invocations it made (calls: <<key, data>>), and the executions it invoked
\* (invoked: the command and the object passed).
NoResponse == [kind |-> "none"]
NotLooked == [t |-> "none"]

Handled(response, pending, found, calls, invoked) ==
    [response |-> response, pending |-> pending, looked |-> found # NotLooked,
     found |-> found, calls |-> calls, invoked |-> invoked]

Invoked(command, obj) == [cmd |-> command, args |-> obj]

\* isValidJsonRpcRequest(body)
isValidJsonRpcRequest(body) ==
    /\ Truthy(body)
    /\ body.t \in {"object", "array"}
    /\ Get(body, "jsonrpc") = Str("2.0")
    /\ Get(body, "method").t = "string"
    /\ Get(body, "params").t \in {"undefined", "array", "object"}
    /\ Get(body, "id").t \in {"undefined", "null", "string", "number"}

\* the id of the response to a body that is not a valid request
InvalidRequestId(body) ==
    IF Truthy(body) /\ Get(body, "id") # Undefined THEN Get(body, "id") ELSE Null

\* the response to a batch
BatchResponse ==
    ErrorResponse(INVALID_REQUEST, "Batch requests not supported", Undefined, Null)

\* a catch block that does not tell parsing errors from other errors
CaughtAsServerError(error, id) ==
    ErrorResponse(SERVER_ERROR, "Server error",
                  Str(IF error.t = "error" THEN error.message ELSE TextOf(error)),
                  id)

\* the catch block of handleJsonRpcRequest, for the caught value error
CaughtResponse(error, id) ==
    IF error.t = "error" /\ Includes(error.message, "Parsing parameter")
    THEN ErrorResponse(INVALID_PARAMS, "Invalid params", Str(error.message), id)
    ELSE ErrorResponse(SERVER_ERROR, "Server error",
                       Str(IF error.t = "error" THEN error.message
                           ELSE TextOf(error)), id)

\* the try block of handleJsonRpcRequest up to its await, with parsed what
\* parseCommandParams did for the command found: a failure to parse goes to
\* the catch block, and otherwise the execution is invoked with the object
TryBlock(parsed, command, id) ==
    IF ~parsed.ok
    THEN Handled(CaughtResponse(ErrorObj(parsed.message), id), FALSE,
                 command, parsed.calls, <<>>)
    ELSE Handled(NoResponse, TRUE, command, parsed.calls,
                 <<Invoked(command, parsed.obj)>>)

\* handleJsonRpcRequest from the lookup on, with command the value found
\* under the method
Dispatched(command, params, id) ==
    IF ~Truthy(command)
    THEN Handled(ErrorResponse(METHOD_NOT_FOUND, "Method not found",
                               Undefined, id),
                 FALSE, command, <<>>, <<>>)
    ELSE TryBlock(parseCommandParams(command, params), command, id)

\* handleJsonRpcRequest for a body that is no batch, up to the invocation
\* of the execution
dispatchRequest(commands, body) ==
    IF ~isValidJsonRpcRequest(body)
    THEN Handled(ErrorResponse(INVALID_REQUEST, "Invalid Request", Undefined,
                               InvalidRequestId(body)),
                 FALSE, NotLooked, <<>>, <<>>)
    ELSE Dispatched(Lookup(commands, Get(body, "method").s),
                    Get(body, "params"), Get(body, "id"))

\* a handler that serves the first request of a batch instead of rejecting
\* the batch
dispatchFirstOfBatch(commands, body) ==
    IF body.t = "array" /\ body.elems # <<>>
    THEN dispatchRequest(commands, body.elems[1])
    ELSE IF body.t = "array"
    THEN Handled(BatchResponse, FALSE, NotLooked, <<>>, <<>>)
    ELSE dispatchRequest(commands, body)

\* handleJsonRpcRequest(body) up to the invocation of the execution
dispatchJsonRpcRequest(commands, body) ==
    IF body.t = "array"
    THEN Handled(BatchResponse, FALSE, NotLooked, <<>>, <<>>)
    ELSE dispatchRequest(commands, body)

\* the response once the execution exec has settled (or has thrown): the
\* rest of the try block, or the catch block
SettledResponse(exec, id) ==
    IF exec.kind = "resolve" THEN ResultResponse(exec.value, id)
    ELSE CaughtResponse(exec.value, id)

\* what handleJsonRpcRequest has done when it returns: h, with the response
\* to the execution exec where it was pending on it
Returned(h, exec, id) ==
    IF h.pending
    THEN [h EXCEPT !.response = SettledResponse(exec, id), !.pending = FALSE]
    ELSE h

\* handleJsonRpcRequest(body), with exec what the execution does when it is
\* invoked
handleJsonRpcRequest(commands, body, exec) ==
    Returned(dispatchJsonRpcRequest(commands, body), exec, Get(body, "id"))

(***************************************************************************)
(* The line adapter: the tokens of a line.                                 *)
(***************************************************************************)
\* the end of the longest run of characters that are not white space and
\* that starts at i (`[\S]+`)
RECURSIVE RunEnd(_, _)
RunEnd(line, i) ==
    IF i < Len(line) /\ ~IsWhite(Char(line, i + 1)) THEN RunEnd(line, i + 1)
    ELSE i

\* the end of the match of /"[^"]+"|[\S]+/ that starts at i, 0 when no match
\* starts there: a quote, at least one character that is no quote, a quote;
\* otherwise a run of characters that are not white space
MatchEnd(line, i) ==
    LET close == IF Char(line, i) = "\"" THEN IndexOf(line, "\"", i + 1) ELSE 0
    IN  IF close >= i + 2 THEN close
        ELSE IF ~IsWhite(Char(line, i)) THEN RunEnd(line, i)
        ELSE 0

\* `line.match(regex)` with the g flag, from position i on: the matches in
\* order (the empty sequence stands for the null that match returns)
RECURSIVE Matches(_, _)
Matches(line, i) ==
    IF i > Len(line) THEN <<>>
    ELSE LET e == MatchEnd(line, i)
         IN  IF e = 0 THEN Matches(line, i + 1)
             ELSE <<SubSeq(line, i, e)>> \o Matches(line, e + 1)

\* the array `args` of parseLine: every match with its quotes removed
Tokens(line) ==
    LET m == Matches(line, 1)
    IN  [i \in 1..Len(m) |-> StripQuotes(m[i])]

(***************************************************************************)
(* minimist(args, {string: keys}), the library the line adapter parses     *)
(* flags with.  The result is [underscore, flags]: the array `_` and the   *)
(* other properties.  Modelled for the tokens a line of this model holds:  *)
(* words, `--key=value`, `--key`, `--no-key`, `--` and `-k` with one       *)
(* letter (a token `--=v` or a cluster `-abc` is in no line drawn).        *)
(***************************************************************************)
\* isNumber(x) of minimist, for the integer texts of the model
IsNumberText(x) ==
    LET u == IF x # "" /\ Char(x, 1) \in {"+", "-"} THEN Tail(x) ELSE x
    IN  u # "" /\ LeadingDigits(u) = Len(u)

\* the value setArg stores: a declared (string) key keeps the text
ArgValue(key, val, strings) ==
    IF val.t = "string" /\ key \notin strings /\ IsNumberText(val.s)
    THEN Num(ParseIntText(val.s).n)
    ELSE val

\* setKey: a first value is stored, a boolean is replaced, and a further
\* value makes the property an array
setKey(flags, key, value) ==
    IF key \notin DOMAIN flags \/ flags[key].t = "boolean"
    THEN (key :> value) @@ flags
    ELSE IF flags[key].t = "array"
    THEN (key :> Arr(Append(flags[key].elems, value))) @@ flags
    ELSE (key :> Arr(<<flags[key], value>>)) @@ flags

setArg(argv, key, val, strings) ==
    [argv EXCEPT !.flags = setKey(argv.flags, key, ArgValue(key, val, strings))]

\* /^(-|--)[^-]/.test(next)
LooksLikeFlag(next) ==
    \/ Len(next) >= 2 /\ Char(next, 1) = "-" /\ Char(next, 2) # "-"
    \/ Len(next) >= 3 /\ SubSeq(next, 1, 2) = "--" /\ Char(next, 3) # "-"

\* the loop of minimist over args, from index i (1-based) on
RECURSIVE MinimistLoop(_, _, _, _)
MinimistLoop(args, i, strings, argv) ==
    IF i > Len(args) THEN argv
    ELSE
    LET arg == args[i]
        hasNext == i < Len(args)
        next == IF hasNext THEN args[i + 1] ELSE ""
    IN  IF \* /^--.+=/ : --key=value
             StartsWith(arg, "--") /\ IndexOf(arg, "=", 4) > 0 THEN
               LET eq == IndexOf(arg, "=", 3)
               IN  MinimistLoop(args, i + 1, strings,
                       setArg(argv, SubSeq(arg, 3, eq - 1),
                              Str(SubSeq(arg, eq + 1, Len(arg))), strings))
        ELSE IF \* /^--no-.+/
             StartsWith(arg, "--no-") /\ Len(arg) > 5 THEN
               MinimistLoop(args, i + 1, strings,
                   setArg(argv, SubSeq(arg, 6, Len(arg)), Bool(FALSE), strings))
        ELSE IF \* /^--.+/ : --key, with the next token as its value unless
             \* that one looks like a flag
             StartsWith(arg, "--") /\ Len(arg) > 2 THEN
               LET key == SubSeq(arg, 3, Len(arg))
               IN  IF hasNext /\ ~LooksLikeFlag(next)
                   THEN MinimistLoop(args, i + 2, strings,
                            setArg(argv, key, Str(next), strings))
                   ELSE MinimistLoop(args, i + 1, strings,
                            setArg(argv, key,
                                   IF key \in strings THEN Str("") ELSE Bool(TRUE),
                                   strings))
        ELSE IF \* /^-[^-]+/ with one letter: -k
             Len(arg) = 2 /\ Char(arg, 1) = "-" /\ Char(arg, 2) # "-" THEN
               LET key == Char(arg, 2)
               IN  IF hasNext /\ next # "" /\ ~LooksLikeFlag(next)
                   THEN MinimistLoop(args, i + 2, strings,
                            setArg(argv, key, Str(next), strings))
                   ELSE MinimistLoop(args, i + 1, strings,
                            setArg(argv, key,
                                   IF key \in strings THEN Str("") ELSE Bool(TRUE),
                                   strings))
        ELSE MinimistLoop(args, i + 1, strings,
                 [argv EXCEPT !.underscore = Append(@, arg)])

\* the index of the first "--" in args, 0 when there is none
FirstDashDash(args) ==
    IF \E i \in 1..Len(args) : args[i] = "--"
    THEN CHOOSE i \in 1..Len(args) :
            args[i] = "--" /\ \A j \in 1..(i - 1) : args[j] # "--"
    ELSE 0

\* minimist(args, {string: ["_"].concat(keys)}): what follows a "--" is
\* appended to `_` as it is
minimist(args, strings) ==
    LET dd == FirstDashDash(args)
        before == IF dd = 0 THEN args ELSE SubSeq(args, 1, dd - 1)
        after == IF dd = 0 THEN <<>> ELSE SubSeq(args, dd + 1, Len(args))
        argv == MinimistLoop(before, 1, strings,
                    [underscore |-> <<>>, flags |-> EmptyObject])
    IN  [argv EXCEPT !.underscore = @ \o after]

(***************************************************************************)
(* The line adapter: help texts and the rendering of results.              *)
(***************************************************************************)
\* `lines.join("\n")`
RECURSIVE JoinLines(_)
JoinLines(lines) ==
    IF lines = <<>> THEN ""
    ELSE IF Len(lines) = 1 THEN lines[1]
    ELSE lines[1] \o "\n" \o JoinLines(Tail(lines))

\* getUsageString(cmd): `cmd.cmd + " " + args.join(" ")`
RECURSIVE JoinUsage(_)
JoinUsage(base) ==
    IF base = <<>> THEN ""
    ELSE IF Len(base) = 1 THEN "<" \o base[1].key \o ">"
    ELSE "<" \o base[1].key \o "> " \o JoinUsage(Tail(base))

getUsageString(cmd) == cmd.cmd \o " " \o JoinUsage(BaseArgs(cmd.args))

\* getParamsDescription(cmd)
getParamsDescription(cmd) ==
    [i \in 1..Len(cmd.args) |->
        "--" \o cmd.args[i].key \o " : " \o cmd.args[i].description]

\* getCommandHelp(cmd)
getCommandHelp(cmd) ==
    LET params == getParamsDescription(cmd)
        head == <<"Command: " \o cmd.cmd,
                  "Description: " \o cmd.description,
                  "Usage: " \o getUsageString(cmd)>>
    IN  JoinLines(IF params = <<>> THEN head
                  ELSE head \o <<"Params:">>
                       \o [i \in 1..Len(params) |-> "    " \o params[i]])

\* getHelp()
getHelp(commands) ==
    JoinLines(<<"Available commands:">>
              \o [i \in 1..Len(commands) |->
                    "    " \o commands[i].cmd \o " : " \o commands[i].description]
              \o <<"Use 'help <command name>' for usage examples, description & help around a specific command!">>)

\* JSON.stringify of a string, a number, a boolean or null
JsonScalar(v) ==
    CASE v.t = "string" -> "\"" \o v.s \o "\""
      [] v.t = "number" -> IntToText(v.n)
      [] v.t = "boolean" -> (IF v.b THEN "true" ELSE "false")
      [] OTHER -> "null"

\* JSON.stringify(response, null, 2) of an object: the results of the model
\* are objects with at most one property, of a scalar value
JsonPretty(obj) ==
    IF DOMAIN obj.fields = {} THEN "{}"
    ELSE LET k == CHOOSE x \in DOMAIN obj.fields : TRUE
         IN  "{\n  \"" \o k \o "\": " \o JsonScalar(obj.fields[k]) \o "\n}"

\* formatResponseForCli(response)
formatResponseForCli(response) ==
    CASE response.t = "string" -> response.s
      [] response.t = "object" -> JsonPretty(response)
      [] response.t = "undefined" -> "undefined"
      [] OTHER -> JsonScalar(response)

(***************************************************************************)
(* The line adapter: parseLine.                                            *)
(***************************************************************************)
\* `result[key]` of the object minimist returns
FlagValue(result, key) ==
    IF key \in DOMAIN result.flags THEN result.flags[key] ELSE Undefined

\* the loop of parseLine over the parameters, from the parameter n on, with
\* `index` the position in `result._` of the next positional slot: a base
\* parameter without a flag value takes `result._[index]` when there is
\* one, and every base parameter advances index
RECURSIVE LinePlan(_, _, _, _)
LinePlan(args, n, result, index) ==
    IF n > Len(args) THEN <<>>
    ELSE LET a == args[n]
             flag == FlagValue(result, a.key)
             slot == IF index + 1 <= Len(result.underscore)
                     THEN Str(result.underscore[index + 1]) ELSE Undefined
             data == IF a.base /\ IsNullish(flag) /\ ~IsNullish(slot)
                     THEN slot ELSE flag
         IN  <<Invocation(a, data)>>
             \o LinePlan(args, n + 1, result, IF a.base THEN index + 1 ELSE index)

\* what the synchronous part of parseLine does: it returns a promise
\* resolved with a text (kind "text"), it throws (kind "throw"), or it
\* invokes the execution with an object (kind "call")
LineText(text, found, calls) ==
    [kind |-> "text", text |-> text, looked |-> found # NotLooked,
     found |-> found, calls |-> calls, invoked |-> <<>>]
LineThrow(message, found) ==
    [kind |-> "throw", text |-> message, looked |-> found # NotLooked,
     found |-> found, calls |-> <<>>, invoked |-> <<>>]
LineCall(command, obj, calls) ==
    [kind |-> "call", text |-> "", looked |-> TRUE, found |-> command,
     calls |-> calls, invoked |-> <<Invoked(command, obj)>>]

UnknownCommandText ==
    "Error: Unknown command, please type 'help' to get a list of all commands!"

NoRuntimeMessage == "Cannot read properties of undefined (reading 'args')"

\* the keys minimist is told to keep as strings
StringKeys(cmd) == {"_"} \cup {cmd.args[i].key : i \in 1..Len(cmd.args)}

\* the loop of parseLine has run the parsers (r): the first failure is
\* rendered with the command's help, and otherwise the execution is invoked
Materialized(r, cmd) ==
    IF ~r.ok
    THEN LineText("Error: " \o ParsingParameterMessage(r.key, r.msg)
                  \o "\n\n" \o getCommandHelp(cmd), cmd, r.calls)
    ELSE LineCall(cmd, r.obj, r.calls)

\* parseLine for the value found in the registry under the first token
parseLineCommand(cmd, args) ==
    IF cmd.t # "command" THEN LineThrow(NoRuntimeMessage, cmd)
    ELSE Materialized(
             RunParsers(LinePlan(cmd.args, 1, minimist(args, StringKeys(cmd)), 1),
                        EmptyObject, <<>>),
             cmd)

\* the help of the value found under the second token of a help line
HelpFor(commands, named) ==
    IF named = NotLooked \/ IsNullish(named)
    THEN LineText(getHelp(commands), named, <<>>)
    ELSE IF named.t # "command" THEN LineThrow(NoRuntimeMessage, named)
    ELSE LineText(getCommandHelp(named), named, <<>>)

\* the help branch of parseLine
parseLineHelp(commands, args) ==
    HelpFor(commands,
            IF Len(args) >= 2 THEN Lookup(commands, args[2]) ELSE NotLooked)

\* parseLine once the line is split into args
parseArgs(commands, args) ==
    IF args[1] = "help" THEN parseLineHelp(commands, args)
    ELSE IF IsNullish(Lookup(commands, args[1]))
    THEN LineText(UnknownCommandText, Lookup(commands, args[1]), <<>>)
    ELSE parseLineCommand(Lookup(commands, args[1]), args)

\* parseLine(line, socket) up to the invocation of the execution
parseLine(commands, line) ==
    IF line = "" THEN LineText("", NotLooked, <<>>)
    ELSE IF Matches(line, 1) = <<>>
    THEN LineThrow("Cannot read properties of null (reading 'forEach')", NotLooked)
    ELSE parseArgs(commands, Tokens(line))

\* `err.message != null ? err.message : JSON.stringify(err)`
ErrorText(err) == IF err.t = "error" THEN err.message ELSE JsonScalar(err)

\* what the `line` listener writes once the execution exec has settled
SettledText(exec) ==
    IF exec.kind = "resolve" THEN formatResponseForCli(exec.value) \o "\n> "
    ELSE "Error: " \o ErrorText(exec.value) \o "\n> "

(***************************************************************************)
(* The state.                                                              *)
(*                                                                         *)
(* commands      the registry object of the CommandHandler.  Both adapters *)
(*               are constructed with a reference to this one object and   *)
(*               read it on every request.                                 *)
(* startup       the command list the CommandHandler was constructed with  *)
(* registered    the calls of registerCommand so far: the command passed,  *)
(*               the value returned, the registry before the call, and     *)
(*               whether init() had resolved                               *)
(* tcpCliServer, rpcServer                                                 *)
(*               the adapters: "unset" before init() constructs them, then *)
(*               the state of the listener held in their `server` field;   *)
(*               "stopped" is an adapter whose `server` is null            *)
(* initPc        where init() is                                           *)
(* exchange      the request being served: its stage, the adapter, the     *)
(*               request, what the execution invoked does, and what the    *)
(*               handler has done (h)                                      *)
(* alive         whether the process is running                            *)
(* stopPc        where stop() is, and the adapters whose stop() it awaits  *)
(* pending       the requests of the connections served concurrently, in   *)
(*               the order they arrived: the connection, the lines the     *)
(*               execution emits and how many it has emitted, and the      *)
(*               exchange (x) as in `exchange`                             *)
(* socket        what was written to the socket of each line connection,   *)
(*               in order: the text and the request it was written for     *)
(* starts        for each adapter, how the latest start() called on it     *)
(*               directly has ended, or that it is pending                 *)
(***************************************************************************)
VARIABLES commands, startup, registered, tcpCliServer, rpcServer, initPc,
          exchange, alive, stopPc, pending, socket, starts

vars == <<commands, startup, registered, tcpCliServer, rpcServer, initPc,
          exchange, alive, stopPc, pending, socket, starts>>

\* the most calls of registerCommand in one behaviour
MaxRegistrations == 2
\* the most commands in the list a CommandHandler is constructed with
MaxStartup == 2

\* the sequences over S of length at most n
SeqsUpTo(S, n) == UNION {[1..k -> S] : k \in 0..n}

\* the line connections of the model
Connections == {1, 2}

\* the adapters: the line adapter and the JSON-RPC adapter
Adapters == {"tcp", "rpc"}

\* stop() has not been called
NotStopping == [pc |-> "idle", awaiting |-> {}]

Idle == [stage |-> "idle"]
NoExec == [kind |-> "none", value |-> Undefined]

(***************************************************************************)
(* CommandHandler: construction, init() and registerCommand.               *)
(***************************************************************************)
\* the constructor: the registry is filled from the list
Constructed(lists) ==
    /\ startup \in lists
    /\ commands = NewRegistry(startup)
    /\ registered = <<>>
    /\ exchange = Idle
    /\ alive = TRUE
    /\ stopPc = NotStopping
    /\ pending = <<>>
    /\ socket = [conn \in Connections |-> <<>>]
    /\ starts = [adapter \in Adapters |-> "none"]

\* registerCommand(cmd)
RegisterCommand(cmds) ==
    \E cmd \in cmds :
        /\ alive
        /\ Len(registered) < MaxRegistrations
        /\ LET r == registerCommand(commands, cmd)
           IN  /\ commands' = r.commands
               /\ registered' = Append(registered,
                      [cmd |-> cmd, ret |-> r.ret, before |-> commands,
                       started |-> initPc = "resolved"])
        /\ UNCHANGED <<startup, tcpCliServer, rpcServer, initPc, exchange, alive>>
        /\ UNCHANGED <<stopPc, pending, socket, starts>>

\* init() with both adapters configured; calls of init() and stop() do not
\* overlap: the line adapter is constructed
\* and started first; start() stores the listener in `server` and awaits
\* its `listening` or `error` event
HandlerInit ==
    /\ alive
    /\ initPc = "idle"
    /\ stopPc.pc # "stopping"
    /\ tcpCliServer' = "binding"
    /\ initPc' = "tcp"
    /\ UNCHANGED <<commands, startup, registered, rpcServer, exchange, alive>>
    /\ UNCHANGED <<stopPc, pending, socket, starts>>

\* the line adapter's listener is bound: its start() resolves, and init()
\* goes on to construct and start the JSON-RPC adapter
TcpListening ==
    /\ alive
    /\ tcpCliServer = "binding"
    /\ tcpCliServer' = "listening"
    /\ rpcServer' = "binding"
    /\ initPc' = "rpc"
    /\ UNCHANGED <<commands, startup, registered, exchange, alive>>
    /\ UNCHANGED <<stopPc, pending, socket, starts>>

\* the line adapter's listener reports an error: start() rejects and init()
\* rethrows; the `server` field keeps the listener
TcpListenError ==
    /\ alive
    /\ tcpCliServer = "binding"
    /\ tcpCliServer' = "failed"
    /\ initPc' = "rejected"
    /\ UNCHANGED <<commands, startup, registered, rpcServer, exchange, alive>>
    /\ UNCHANGED <<stopPc, pending, socket, starts>>

\* the JSON-RPC adapter's listener is bound: init() resolves
RpcListening ==
    /\ alive
    /\ rpcServer = "binding"
    /\ rpcServer' = "listening"
    /\ initPc' = "resolved"
    /\ UNCHANGED <<commands, startup, registered, tcpCliServer, exchange, alive>>
    /\ UNCHANGED <<stopPc, pending, socket, starts>>

\* the JSON-RPC adapter's listener reports an error: init() rejects
RpcListenError ==
    /\ alive
    /\ rpcServer = "binding"
    /\ rpcServer' = "failed"
    /\ initPc' = "rejected"
    /\ UNCHANGED <<commands, startup, registered, tcpCliServer, exchange, alive>>
    /\ UNCHANGED <<stopPc, pending, socket, starts>>

(***************************************************************************)
(* CommandHandler: stop() and isRunning().                                 *)
(***************************************************************************)
\* the `server` field of an adapter of the handler
ServerOf(adapter, tcp, rpc) == IF adapter = "tcp" THEN tcp ELSE rpc

\* `adapter?.isRunning()`: the adapter exists and its `server` is not null
AdapterIsRunning(server) == server \notin {"unset", "stopped"}

\* CommandHandler.isRunning()
isRunning(tcp, rpc) == AdapterIsRunning(tcp) \/ AdapterIsRunning(rpc)

\* the adapters whose stop() is called, one after the other, before only
\* the first is awaited
stopInTurn(tcp, rpc) ==
    IF AdapterIsRunning(tcp) THEN {"tcp"}
    ELSE IF AdapterIsRunning(rpc) THEN {"rpc"}
    ELSE {}

\* the adapters whose stop() CommandHandler.stop() calls before it awaits
\* any of them
stop(tcp, rpc) ==
    {adapter \in {"tcp", "rpc"} : AdapterIsRunning(ServerOf(adapter, tcp, rpc))}

\* `server.close(...)` of the adapters among `called`
Closing(adapter, called, server) ==
    IF adapter \in called THEN "closing" ELSE server

\* stop(): every running adapter's stop() is called, which asks its listener
\* to close, and the promises are awaited together
HandlerStop ==
    /\ alive
    /\ stopPc.pc = "idle"
    /\ initPc \in {"idle", "resolved", "rejected"}
    /\ stopPc' = [pc |-> "stopping", awaiting |-> stop(tcpCliServer, rpcServer)]
    /\ tcpCliServer' = Closing("tcp", stopPc'.awaiting, tcpCliServer)
    /\ rpcServer' = Closing("rpc", stopPc'.awaiting, rpcServer)
    /\ UNCHANGED <<commands, startup, registered, initPc, exchange, alive>>
    /\ UNCHANGED <<pending, socket, starts>>

\* no request of the adapter is being served
Drained(adapter) ==
    IF exchange.stage = "idle" THEN TRUE ELSE exchange.adapter # adapter

\* the line adapter's listener has closed: the callback of close() clears
\* `server` and resolves the adapter's stop()
TcpClosed ==
    /\ alive
    /\ tcpCliServer = "closing"
    /\ Drained("cli")
    /\ tcpCliServer' = "stopped"
    /\ UNCHANGED <<commands, startup, registered, rpcServer, initPc, exchange,
                   alive>>
    /\ UNCHANGED <<stopPc, pending, socket, starts>>

\* the JSON-RPC adapter's listener has closed
RpcClosed ==
    /\ alive
    /\ rpcServer = "closing"
    /\ Drained("rpc")
    /\ rpcServer' = "stopped"
    /\ UNCHANGED <<commands, startup, registered, tcpCliServer, initPc,
                   exchange, alive>>
    /\ UNCHANGED <<stopPc, pending, socket, starts>>

\* `await Promise.all(promises)`: every stop() called has resolved
StopResolved ==
    /\ alive
    /\ stopPc.pc = "stopping"
    /\ \A adapter \in stopPc.awaiting :
           ServerOf(adapter, tcpCliServer, rpcServer) = "stopped"
    /\ stopPc' = [stopPc EXCEPT !.pc = "resolved"]
    /\ UNCHANGED <<commands, startup, registered, tcpCliServer, rpcServer,
                   initPc, exchange, alive>>
    /\ UNCHANGED <<pending, socket, starts>>

(***************************************************************************)
(* An adapter used on its own: start() and stop() called on it directly.   *)
(***************************************************************************)
\* start(): it throws when `server` is set; otherwise it stores a new
\* listener in `server` and awaits its `listening` or `error` event
AdapterStart(adapter) ==
    /\ alive
    /\ IF AdapterIsRunning(ServerOf(adapter, tcpCliServer, rpcServer))
       THEN /\ starts' = [starts EXCEPT ![adapter] = "already started"]
            /\ UNCHANGED <<tcpCliServer, rpcServer>>
       ELSE /\ starts' = [starts EXCEPT ![adapter] = "pending"]
            /\ tcpCliServer' = IF adapter = "tcp" THEN "binding" ELSE tcpCliServer
            /\ rpcServer' = IF adapter = "rpc" THEN "binding" ELSE rpcServer
    /\ UNCHANGED <<commands, startup, registered, initPc, exchange, alive,
                   stopPc, pending, socket>>

\* the listener is bound: start() resolves
AdapterListening(adapter) ==
    /\ alive
    /\ ServerOf(adapter, tcpCliServer, rpcServer) = "binding"
    /\ starts' = [starts EXCEPT ![adapter] = "resolved"]
    /\ tcpCliServer' = IF adapter = "tcp" THEN "listening" ELSE tcpCliServer
    /\ rpcServer' = IF adapter = "rpc" THEN "listening" ELSE rpcServer
    /\ UNCHANGED <<commands, startup, registered, initPc, exchange, alive,
                   stopPc, pending, socket>>

\* the listener reports an error: start() rejects with it, and `server`
\* keeps the listener
AdapterListenError(adapter) ==
    /\ alive
    /\ ServerOf(adapter, tcpCliServer, rpcServer) = "binding"
    /\ starts' = [starts EXCEPT ![adapter] = "listener error"]
    /\ tcpCliServer' = IF adapter = "tcp" THEN "failed" ELSE tcpCliServer
    /\ rpcServer' = IF adapter = "rpc" THEN "failed" ELSE rpcServer
    /\ UNCHANGED <<commands, startup, registered, initPc, exchange, alive,
                   stopPc, pending, socket>>

\* stop() of an adapter whose start() has settled: the listener is asked to
\* close, and the callback of close() clears `server` (TcpClosed, RpcClosed)
AdapterStop(adapter) ==
    /\ alive
    /\ ServerOf(adapter, tcpCliServer, rpcServer) \in {"listening", "failed"}
    /\ tcpCliServer' = IF adapter = "tcp" THEN "closing" ELSE tcpCliServer
    /\ rpcServer' = IF adapter = "rpc" THEN "closing" ELSE rpcServer
    /\ UNCHANGED <<commands, startup, registered, initPc, exchange, alive,
                   stopPc, pending, socket, starts>>

(***************************************************************************)
(* The JSON-RPC adapter: one POST /rpc.                                    *)
(***************************************************************************)
RpcExchange(stage, body, exec, h) ==
    [stage |-> stage, adapter |-> "rpc", request |-> body, exec |-> exec,
     h |-> h]

\* the exchange once handleJsonRpcRequest has run until it returns or
\* awaits the execution it invoked (h); an execution that throws before it
\* returns a promise is caught at once
RpcReceived(h, body, exec) ==
    IF ~h.pending THEN RpcExchange("responded", body, NoExec, h)
    ELSE IF exec.kind = "throw"
    THEN RpcExchange("responded", body, exec,
                     Returned(h, exec, Get(body, "id")))
    ELSE RpcExchange("executing", body, exec, h)

\* a request arrives
RpcReceive(bodies, execs) ==
    \E body \in bodies, exec \in execs :
        /\ alive
        /\ rpcServer = "listening"
        /\ exchange = Idle
        /\ exchange' = RpcReceived(dispatchJsonRpcRequest(commands, body),
                                   body, exec)
        /\ UNCHANGED <<commands, startup, registered, tcpCliServer, rpcServer,
                       initPc, alive>>
        /\ UNCHANGED <<stopPc, pending, socket, starts>>

\* the execution settles and handleJsonRpcRequest returns its response
RpcSettle ==
    /\ alive
    /\ exchange.stage = "executing"
    /\ exchange.adapter = "rpc"
    /\ exchange' = [exchange EXCEPT
                      !.stage = "responded",
                      !.h = Returned(@, exchange.exec, Get(exchange.request, "id"))]
    /\ UNCHANGED <<commands, startup, registered, tcpCliServer, rpcServer,
                   initPc, alive>>
    /\ UNCHANGED <<stopPc, pending, socket, starts>>

\* `res.json(response)`: the exchange is over
RpcReply ==
    /\ alive
    /\ exchange.stage = "responded"
    /\ exchange' = Idle
    /\ UNCHANGED <<commands, startup, registered, tcpCliServer, rpcServer,
                   initPc, alive>>
    /\ UNCHANGED <<stopPc, pending, socket, starts>>

(***************************************************************************)
(* The line adapter: one line of a connection.                             *)
(***************************************************************************)
CliExchange(stage, line, exec, p, written) ==
    [stage |-> stage, adapter |-> "cli", request |-> line, exec |-> exec,
     h |-> p, written |-> written]

\* The exchange once parseLine has run (p).  A text it resolves with is
\* written with the prompt; an execution invoked is awaited.  An exception
\* thrown by parseLine, or by the execution before it returns a promise,
\* leaves the listener uncaught, and nothing is written for the line.
LineReceived(p, line, exec) ==
    CASE p.kind = "text" ->
           CliExchange("written", line, NoExec, p, p.text \o "\n> ")
      [] p.kind = "throw" -> CliExchange("uncaught", line, NoExec, p, "")
      [] p.kind = "call" /\ exec.kind = "throw" ->
           CliExchange("uncaught", line, exec, p, "")
      [] OTHER -> CliExchange("executing", line, exec, p, "")

\* a line arrives; an exception that leaves the listener uncaught ends the
\* process unless its host handles uncaught exceptions
LineReceive(lines, execs) ==
    \E line \in lines, exec \in execs :
        /\ alive
        /\ tcpCliServer = "listening"
        /\ exchange = Idle
        /\ exchange' = LineReceived(parseLine(commands, line), line, exec)
        /\ alive' \in (IF exchange'.stage = "uncaught" THEN BOOLEAN ELSE {TRUE})
        /\ UNCHANGED <<commands, startup, registered, tcpCliServer, rpcServer,
                       initPc>>
        /\ UNCHANGED <<stopPc, pending, socket, starts>>

\* the execution settles: the rendered result, or the error, is written
\* with the prompt
LineSettle ==
    /\ alive
    /\ exchange.stage = "executing"
    /\ exchange.adapter = "cli"
    /\ exchange' = [exchange EXCEPT !.stage = "written",
                                    !.written = SettledText(exchange.exec)]
    /\ UNCHANGED <<commands, startup, registered, tcpCliServer, rpcServer,
                   initPc, alive>>
    /\ UNCHANGED <<stopPc, pending, socket, starts>>

\* the listener is done with the line
LineDone ==
    /\ alive
    /\ exchange.stage \in {"written", "uncaught"}
    /\ exchange' = Idle
    /\ UNCHANGED <<commands, startup, registered, tcpCliServer, rpcServer,
                   initPc, alive>>
    /\ UNCHANGED <<stopPc, pending, socket, starts>>

(***************************************************************************)
(* Both adapters serving several connections and requests at once.  Every  *)
(* `line` event and every POST /rpc runs its handler until it returns or   *)
(* awaits the execution it invoked; nothing makes a handler wait for the   *)
(* requests that arrived before it.                                        *)
(***************************************************************************)
\* the most requests that arrive in one behaviour
MaxInFlight == 2

\* `socket.write(text)` on a connection, for the request `from`; `what`
\* tells an emitted line from a response
SocketWrite(sockets, conn, from, what, text) ==
    [sockets EXCEPT ![conn] =
        Append(@, [from |-> from, what |-> what, text |-> text])]

\* an emit that writes nothing on either adapter
EmitDropped(adapter, sockets, conn, from, line) == sockets

\* the `emit` given to the execution: the line adapter's writes the line
\* and a newline to the socket, the JSON-RPC adapter's is `() => {}`
Emit(adapter, sockets, conn, from, line) ==
    IF adapter = "cli"
    THEN SocketWrite(sockets, conn, from, "emit", line \o "\n")
    ELSE sockets

\* the sockets once the listener has written the response of x, if it has
Written(sockets, conn, from, x) ==
    IF x.stage = "written"
    THEN SocketWrite(sockets, conn, from, "response", x.written)
    ELSE sockets

\* a request that has arrived, with the lines its execution will emit
Arrived(conn, script, x) ==
    [conn |-> conn,
     emits |-> IF x.stage = "executing" THEN script ELSE <<>>,
     emitted |-> 0,
     x |-> x]

\* the exchange once its execution has settled
Settled(x) ==
    IF x.adapter = "cli"
    THEN [x EXCEPT !.stage = "written", !.written = SettledText(x.exec)]
    ELSE [x EXCEPT !.stage = "responded",
                   !.h = Returned(@, x.exec, Get(x.request, "id"))]

\* a line arrives on a connection, whatever the earlier lines are doing
ConnLine(lines, execs, scripts) ==
    \E conn \in Connections, line \in lines, exec \in execs,
       script \in scripts :
        /\ alive
        /\ tcpCliServer = "listening"
        /\ Len(pending) < MaxInFlight
        /\ pending' = Append(pending,
               Arrived(conn, script,
                       LineReceived(parseLine(commands, line), line, exec)))
        /\ socket' = Written(socket, conn, Len(pending'),
                             pending'[Len(pending')].x)
        /\ alive' \in (IF pending'[Len(pending')].x.stage = "uncaught"
                       THEN BOOLEAN ELSE {TRUE})
        /\ UNCHANGED <<commands, startup, registered, tcpCliServer, rpcServer,
                       initPc, exchange, stopPc, starts>>

\* a POST /rpc arrives, whatever the earlier requests are doing; its
\* response goes to the request's own HTTP response
ConnRpc(bodies, execs, scripts) ==
    \E body \in bodies, exec \in execs, script \in scripts :
        /\ alive
        /\ rpcServer = "listening"
        /\ Len(pending) < MaxInFlight
        /\ pending' = Append(pending,
               Arrived(0, script,
                       RpcReceived(dispatchJsonRpcRequest(commands, body),
                                   body, exec)))
        /\ UNCHANGED <<commands, startup, registered, tcpCliServer, rpcServer,
                       initPc, exchange, alive, stopPc, socket, starts>>

\* the earlier requests a handler is queued behind
AwaitedEarlier(requests, i) == {j \in 1..(i - 1) : requests[j].conn = requests[i].conn}

\* the requests the handler of the i-th request waits for before it goes
\* on: the `line` listener and the route start the handler of each request
\* when it arrives and chain nothing to the handlers before it
Awaited(requests, i) == {}

\* the execution of the i-th request can go on
Running(i) ==
    /\ i <= Len(pending)
    /\ pending[i].x.stage = "executing"
    /\ \A j \in Awaited(pending, i) : pending[j].x.stage # "executing"

\* the execution of the i-th request calls emit with its next line
ExecEmit(i) ==
    /\ alive
    /\ Running(i)
    /\ pending[i].emitted < Len(pending[i].emits)
    /\ pending' = [pending EXCEPT ![i].emitted = @ + 1]
    /\ socket' = Emit(pending[i].x.adapter, socket, pending[i].conn, i,
                      pending[i].emits[pending'[i].emitted])
    /\ UNCHANGED <<commands, startup, registered, tcpCliServer, rpcServer,
                   initPc, exchange, alive, stopPc, starts>>

\* the execution of the i-th request settles after its emits: the line
\* adapter writes the result or the error with the prompt, the JSON-RPC
\* adapter responds
ExecSettle(i) ==
    /\ alive
    /\ Running(i)
    /\ pending[i].x.exec.kind # "hang"
    /\ pending[i].emitted = Len(pending[i].emits)
    /\ pending' = [pending EXCEPT ![i].x = Settled(@)]
    /\ socket' = Written(socket, pending[i].conn, i, pending'[i].x)
    /\ UNCHANGED <<commands, startup, registered, tcpCliServer, rpcServer,
                   initPc, exchange, alive, stopPc, starts>>

(***************************************************************************)
(* Inputs.                                                                 *)
(***************************************************************************)
\* a JSON-RPC request object; a member that is Undefined is absent
Request(jsonrpc, method, params, id) ==
    LET all == [jsonrpc |-> jsonrpc, method |-> method, params |-> params,
                id |-> id]
        present == {k \in DOMAIN all : all[k] # Undefined}
    IN  Obj([k \in present |-> all[k]])

\* `tokens.join(" ")`
RECURSIVE JoinSpace(_)
JoinSpace(tokens) ==
    IF tokens = <<>> THEN ""
    ELSE IF Len(tokens) = 1 THEN tokens[1]
    ELSE tokens[1] \o " " \o JoinSpace(Tail(tokens))

\* the commands of the handler specifications: two descriptors of the name
\* "add", one named like the line adapter's built-in "help", and one named
\* like a member of Object.prototype
AddCommand ==
    createCommand("add", "adds two numbers",
        <<Param("a", TRUE, "first number", NumberParser(Bound(0), Bound(100), FALSE)),
          Param("b", FALSE, "second number", NumberParser(NoBound, NoBound, TRUE))>>)
AddAgain == createCommand("add", "another add", <<>>)
HelpCommand == createCommand("help", "custom help", <<>>)
ToStringCommand == createCommand("toString", "prints", <<>>)

Descriptors == {AddCommand, AddAgain, HelpCommand, ToStringCommand}

\* what the executions of the model do
Executions ==
    {Resolves(Str("ok")), Resolves(Obj([n |-> Num(7)])),
     Rejects(ErrorObj("boom")), Throws(ErrorObj("boom")),
     Rejects(ErrorObj("Parsing parameter of the upstream reply failed"))}

\* the requests of the handler specification: one per name and adapter
ServeBodies ==
    {Request(Str("2.0"), Str(m), ps, Num(1)) :
        m \in {"add", "help", "toString", "sub"},
        ps \in {Undefined, Arr(<<Str("5")>>)}}

ServeLines ==
    {"add 5", "add", "help", "help add", "help toString", "toString", "sub",
     "", " "}

\* the bodies of the envelope specification: every combination of a few
\* values of each member, the bodies that are no object, and batches
EnvelopeBodies ==
    {Request(v, m, ps, id) :
        v \in {Undefined, Str("2.0"), Str("1.0")},
        m \in {Undefined, Str("add"), Str("sub"), Str("toString"), Num(5)},
        ps \in {Undefined, Null, Str("5"), Arr(<<Str("5")>>),
                Obj([a |-> Str("5")])},
        id \in {Undefined, Null, Str("r1"), Num(1), Bool(TRUE),
                Obj([x |-> Num(1)]), Arr(<<>>)}}
    \cup {Undefined, Null, Str("add"), Num(5), Bool(TRUE)}
    \cup {Arr(elems) :
            elems \in SeqsUpTo({Request(Str("2.0"), Str("add"),
                                        Arr(<<Str("5")>>), Num(1)),
                                Request(Str("2.0"), Str("sub"), Undefined, Num(2)),
                                Num(5)}, MaxValues)}

\* the commands of the materializer specification: every command of at
\* most MaxParams parameters "a", "b", ..., each base or not, with one of
\* three parsers
ParamKeys == <<"a", "b", "c", "d">>

MatParsers ==
    {EnumParser(<<"x", "y">>, FALSE), EnumParser(<<"x", "y">>, TRUE),
     StringParser(NoBound, Bound(1), FALSE)}

MatCommands ==
    UNION {{createCommand("cmd", "a command",
                [i \in 1..n |-> Param(ParamKeys[i], f[i][1], "a parameter", f[i][2])]) :
              f \in [1..n -> BOOLEAN \X MatParsers]} :
           n \in 0..MaxParams}

\* the positional values of the materializer specification: "x" suits every
\* parser, "z" is no enum value, "zz" suits no parser
MatValues == {Str("x"), Str("z"), Str("zz")}

\* the params of the materializer specification: absent, an array of at most
\* MaxValues values (null among them), or an object of the declared keys
MatParams ==
    {Undefined}
    \cup {Arr(elems) : elems \in SeqsUpTo(MatValues \cup {Null}, MaxValues)}
    \cup UNION {{Obj(f) : f \in [K -> {Str("x"), Str("zz")}]} :
                K \in SUBSET {ParamKeys[i] : i \in 1..MaxParams}}

MatBodies == {Request(Str("2.0"), Str("cmd"), ps, Num(1)) : ps \in MatParams}

\* the lines of the materializer specification: the command and at most
\* MaxValues tokens, words or flags
MatTokens == {"x", "z", "zz", "--a=x", "--b"}

MatLines == {JoinSpace(<<"cmd">> \o ts) : ts \in SeqsUpTo(MatTokens, MaxValues)}

MatExecs == {Resolves(Str("ok")), Rejects(ErrorObj("boom"))}

\* the largest magnitude of the numbers given to the parsers
MaxNumber == 150

\* the parsers of the parser specification: each kind, optional or not,
\* without bounds and with some
AllParsers ==
    {NumberParser(b[1], b[2], o) :
        b \in {<<NoBound, NoBound>>, <<Bound(0), Bound(100)>>,
                <<Bound(0), NoBound>>, <<NoBound, Bound(100)>>},
        o \in BOOLEAN}
    \cup {BigIntParser(b[1], b[2], o) :
        b \in {<<NoBound, NoBound>>, <<Bound(0), Bound(100)>>}, o \in BOOLEAN}
    \cup {StringParser(b[1], b[2], o) :
        b \in {<<NoBound, NoBound>>, <<Bound(2), Bound(3)>>}, o \in BOOLEAN}
    \cup {EnumParser(<<"x", "y">>, o) : o \in BOOLEAN}

\* the commands of the parser specification: one named parameter "a"
ParserCommands ==
    {createCommand("cmd", "a command", <<Param("a", FALSE, "a parameter", p)>>) :
        p \in AllParsers}

\* the raw values of the parser specification: the decimal text of every
\* integer up to MaxNumber in magnitude, other texts, and null
ParserValues ==
    {Str(IntToText(n)) : n \in (0 - MaxNumber)..MaxNumber}
    \cup {Str("+7"), Str("007"), Str("x"), Str("abcd"), Str(""), Null}

\* the requests of the parser specification: the value given by name, or
\* not given
ParserBodies ==
    {Request(Str("2.0"), Str("cmd"), Obj([a |-> v]), Num(1)) : v \in ParserValues}
    \cup {Request(Str("2.0"), Str("cmd"), ps, Num(1)) :
            ps \in {Undefined, Arr(<<>>), Obj(EmptyObject)}}

ParserLines ==
    {"cmd", "cmd --a=150", "cmd --a=100", "cmd --a=0", "cmd --a=-1", "cmd --a=x"}

(***************************************************************************)
(* The specifications.                                                     *)
(***************************************************************************)
\* the adapters before init()
NotStarted ==
    /\ tcpCliServer = "unset"
    /\ rpcServer = "unset"
    /\ initPc = "idle"

\* the adapters once init() has resolved
Started ==
    /\ tcpCliServer = "listening"
    /\ rpcServer = "listening"
    /\ initPc = "resolved"

\* The handler: a CommandHandler constructed with at most one command, its
\* init(), registerCommand, and requests on both adapters.
Init == Constructed(SeqsUpTo(Descriptors, 1)) /\ NotStarted

Next ==
    \/ HandlerInit
    \/ TcpListening
    \/ TcpListenError
    \/ RpcListening
    \/ RpcListenError
    \/ HandlerStop
    \/ TcpClosed
    \/ RpcClosed
    \/ StopResolved
    \/ RegisterCommand(Descriptors)
    \/ RpcReceive(ServeBodies, Executions)
    \/ RpcSettle
    \/ RpcReply
    \/ LineReceive(ServeLines, Executions)
    \/ LineSettle
    \/ LineDone

Spec == Init /\ [][Next]_vars

\* The registry: a CommandHandler constructed with any list of at most
\* MaxStartup commands, and registerCommand.
InitRegistry == Constructed(SeqsUpTo(Descriptors, MaxStartup)) /\ NotStarted

NextRegistry == RegisterCommand(Descriptors)

SpecRegistry == InitRegistry /\ [][NextRegistry]_vars

\* The envelope: the JSON-RPC adapter of a started handler, and any body.
InitRpc == Constructed(SeqsUpTo(Descriptors, 1)) /\ Started

NextRpc ==
    \/ RpcReceive(EnvelopeBodies, Executions)
    \/ RpcSettle
    \/ RpcReply

SpecRpc == InitRpc /\ [][NextRpc]_vars

\* The materializer: a started handler of one command, and requests for it
\* on both adapters.
InitMaterialize == Constructed({<<c>> : c \in MatCommands}) /\ Started

NextMaterialize ==
    \/ RpcReceive(MatBodies, MatExecs)
    \/ RpcSettle
    \/ RpcReply
    \/ LineReceive(MatLines, MatExecs)
    \/ LineSettle
    \/ LineDone

SpecMaterialize == InitMaterialize /\ [][NextMaterialize]_vars

\* The parsers: a started handler of one command of one parameter, and
\* requests that give the parameter a raw value, or none.
InitParsers == Constructed({<<c>> : c \in ParserCommands}) /\ Started

NextParsers ==
    \/ RpcReceive(ParserBodies, MatExecs)
    \/ RpcSettle
    \/ RpcReply
    \/ LineReceive(ParserLines, MatExecs)
    \/ LineSettle
    \/ LineDone

SpecParsers == InitParsers /\ [][NextParsers]_vars

\* The adapters serving at once: a started handler with the command "add",
\* lines on two connections and POST /rpc requests, whose executions emit
\* lines and then resolve, or never settle.
ConcLines == {"add 5", "help"}
ConcBodies == {Request(Str("2.0"), Str("add"), Arr(<<Str("5")>>), Num(1))}
ConcExecs == {Resolves(Str("ok")), Hangs}
ConcScripts == {<<>>, <<"p1", "p2">>}

InitConcurrent == Constructed({<<AddCommand>>}) /\ Started

NextConcurrent ==
    \/ ConnLine(ConcLines, ConcExecs, ConcScripts)
    \/ ConnRpc(ConcBodies, ConcExecs, ConcScripts)
    \/ \E i \in 1..MaxInFlight : ExecEmit(i)
    \/ \E i \in 1..MaxInFlight : ExecSettle(i)

\* the i-th request has an execution that settles
NotHung(i) ==
    IF i <= Len(pending) THEN pending[i].x.exec.kind # "hang" ELSE FALSE

\* the event loop runs every callback that is due, and an execution that
\* does not hang goes on until it has settled
Fairness ==
    \A i \in 1..MaxInFlight :
        /\ WF_vars(NotHung(i) /\ ExecEmit(i))
        /\ WF_vars(ExecSettle(i))

SpecConcurrent == InitConcurrent /\ [][NextConcurrent]_vars /\ Fairness

\* The adapters on their own: both constructed, and any sequence of
\* start(), stop() and outcomes of their listeners.
InitAdapters ==
    /\ Constructed({<<>>})
    /\ tcpCliServer = "stopped"
    /\ rpcServer = "stopped"
    /\ initPc = "idle"

NextAdapters ==
    \/ \E adapter \in Adapters : AdapterStart(adapter)
    \/ \E adapter \in Adapters : AdapterListening(adapter)
    \/ \E adapter \in Adapters : AdapterListenError(adapter)
    \/ \E adapter \in Adapters : AdapterStop(adapter)
    \/ TcpClosed
    \/ RpcClosed

SpecAdapters == InitAdapters /\ [][NextAdapters]_vars

(***************************************************************************)
(* Argument materialization: the properties of the requests served.        *)
(***************************************************************************)
\* the request being served reached a command of the registry
ServesCommand == exchange # Idle /\ exchange.h.found.t = "command"

\* the tokens of the line being served after the command
LineValues ==
    LET tokens == Tokens(exchange.request)
    IN  [i \in 1..(Len(tokens) - 1) |-> tokens[i + 1]]

\* the request being served gives its parameters by position: a params
\* array, or a line whose tokens after the command are all unflagged
IsPositionalSource ==
    /\ ServesCommand
    /\ IF exchange.adapter = "rpc"
       THEN Get(exchange.request, "params").t = "array"
       ELSE \A i \in 1..Len(LineValues) : ~StartsWith(LineValues[i], "-")

\* the positional values of such a request
PositionalValues ==
    IF exchange.adapter = "rpc" THEN Get(exchange.request, "params").elems
    ELSE [i \in 1..Len(LineValues) |-> Str(LineValues[i])]

\* the index among the positional parameters of the parameter n of args (0
\* when it is not positional)
BaseIndex(args, n) ==
    IF args[n].base THEN Cardinality({m \in 1..n : args[m].base}) ELSE 0

\* the raw value the request being served supplies for the parameter n of
\* the command it reached: by position, by name, or none
Supplied(n) ==
    LET args == exchange.h.found.args
        params == Get(exchange.request, "params")
    IN  IF IsPositionalSource
        THEN IF 1 <= BaseIndex(args, n) /\ BaseIndex(args, n) <= Len(PositionalValues)
             THEN PositionalValues[BaseIndex(args, n)]
             ELSE Undefined
        ELSE IF exchange.adapter = "rpc" /\ params.t = "object"
        THEN Get(params, args[n].key)
        ELSE Undefined

\* the request being served is one whose supplied values Supplied gives: a
\* JSON-RPC request for a command, or a line of unflagged tokens
IsPlainSource ==
    ServesCommand /\ (exchange.adapter = "rpc" \/ IsPositionalSource)

\* the parser invocations made for the request being served, as a set
CallsMade ==
    {exchange.h.calls[j] : j \in 1..Len(exchange.h.calls)}

\* the request being served was answered with the parsing error of the
\* parameter key with the parser's message msg
ReportsParsingError(key, msg) ==
    /\ exchange.h.invoked = <<>>
    /\ IF exchange.adapter = "rpc"
       THEN /\ exchange.h.response.kind = "error"
            /\ exchange.h.response.code = INVALID_PARAMS
            /\ exchange.h.response.data = Str(ParsingParameterMessage(key, msg))
       ELSE /\ exchange.h.kind = "text"
            /\ StartsWith(exchange.h.text,
                          "Error: " \o ParsingParameterMessage(key, msg) \o "\n")

\* C1: when a request gives k positional values to a command of N >= k
\* positional parameters and the execution is invoked, the parsers of the
\* first k positional parameters were invoked with those values in
\* declaration order, and the parser of every other parameter was invoked
\* with null or undefined: one invocation per declared parameter.
C1PositionalMapping ==
    (/\ IsPositionalSource
     /\ Len(PositionalValues) <= Len(BaseArgs(exchange.h.found.args))
     /\ exchange.h.invoked # <<>>)
    => LET args == exchange.h.found.args
       IN  /\ Len(exchange.h.calls) = Len(args)
           /\ \A n \in 1..Len(args) :
                IF 1 <= BaseIndex(args, n)
                   /\ BaseIndex(args, n) <= Len(PositionalValues)
                THEN <<args[n].key, PositionalValues[BaseIndex(args, n)]>>
                        \in CallsMade
                ELSE \E c \in CallsMade : c[1] = args[n].key /\ IsNullish(c[2])

\* the parameters of the command reached whose parser fails on the value
\* the request supplies
WouldFail ==
    {n \in 1..Len(exchange.h.found.args) :
        ~Parse(exchange.h.found.args[n].parser, Supplied(n)).ok}

\* the least member of a nonempty set of numbers
Least(S) == CHOOSE n \in S : \A m \in S : n <= m

\* C2: when a request (absent params, a params array, a params object, or a
\* line of unflagged tokens) supplies some parameter with a value its parser
\* fails on, the execution is not invoked, and the error names the first
\* such parameter in declaration order, with its parser's message.
C2FirstDeclaredFailure ==
    (IsPlainSource /\ WouldFail # {})
    => ReportsParsingError(
           exchange.h.found.args[Least(WouldFail)].key,
           Parse(exchange.h.found.args[Least(WouldFail)].parser,
                 Supplied(Least(WouldFail))).msg)

\* C3: the object an execution is invoked with has exactly the declared
\* parameter names of its command as keys.
C3ExactKeys ==
    (exchange # Idle /\ exchange.h.invoked # <<>>)
    => DOMAIN exchange.h.invoked[1].args
         = {exchange.h.invoked[1].cmd.args[n].key :
               n \in 1..Len(exchange.h.invoked[1].cmd.args)}

\* what the JSON-RPC adapter does with the positional values of the line
\* being served, given as the params array of a request for the same name
SameValuesByRpc ==
    dispatchJsonRpcRequest(commands,
        Request(Str("2.0"), Str(Tokens(exchange.request)[1]),
                Arr(PositionalValues), Num(1)))

\* the outcome h of the JSON-RPC adapter is the outcome of the line being
\* served: the same object passed to the execution, or the same parsing
\* error
SameOutcome(h) ==
    IF exchange.h.kind = "call"
    THEN h.invoked # <<>> /\ h.invoked[1].args = exchange.h.invoked[1].args
    ELSE /\ h.invoked = <<>>
         /\ h.response.kind = "error"
         /\ h.response.code = INVALID_PARAMS
         /\ StartsWith(exchange.h.text, "Error: " \o h.response.data.s \o "\n")

\* C4: a line of unflagged tokens and a JSON-RPC request with the same
\* values as its params array have the same outcome: the execution invoked
\* with equal objects, or a parsing error of the same parameter and message.
C4AdaptersAgree ==
    (IsPositionalSource /\ exchange.adapter = "cli") => SameOutcome(SameValuesByRpc)

(***************************************************************************)
(* The registry: the properties of registerCommand and of the constructor. *)
(***************************************************************************)
\* the registry the call i of registerCommand left
RegistryAfter(i) ==
    IF i < Len(registered) THEN registered[i + 1].before ELSE commands

\* C5: a call of registerCommand with a name that is a key of the registry
\* returns false and leaves the registry as it was; a call with a name that
\* is not inserts the command, which lookup then returns, and returns true;
\* no call removes a key.
C5RegisterOnce ==
    \A i \in 1..Len(registered) :
        LET call == registered[i]
        IN  /\ OwnNames(call.before) \subseteq OwnNames(RegistryAfter(i))
            /\ IF call.cmd.cmd \in OwnNames(call.before)
               THEN ~call.ret /\ RegistryAfter(i) = call.before
               ELSE call.ret /\ Lookup(RegistryAfter(i), call.cmd.cmd) = call.cmd

\* every command ever supplied: the startup list, then the calls of
\* registerCommand in order
EverSupplied == startup \o [i \in 1..Len(registered) |-> registered[i].cmd]

\* the first command ever supplied under the name
FirstSupplied(name) ==
    EverSupplied[Least({i \in 1..Len(EverSupplied) : EverSupplied[i].cmd = name})]

\* C6: for every name ever supplied, in the startup list or to
\* registerCommand, lookup returns the first command supplied under it.
C6FirstSuppliedWins ==
    \A i \in 1..Len(EverSupplied) :
        Lookup(commands, EverSupplied[i].cmd) = FirstSupplied(EverSupplied[i].cmd)

(***************************************************************************)
(* Late registrations and the running adapters.                            *)
(***************************************************************************)
\* the name a request asks for: the method of a JSON-RPC request, the first
\* token of a line ("" when there is none)
RequestedName(x) ==
    IF x.adapter = "rpc"
    THEN IF Get(x.request, "method").t = "string"
         THEN Get(x.request, "method").s ELSE ""
    ELSE IF x.request = "" \/ Matches(x.request, 1) = <<>> THEN ""
    ELSE Tokens(x.request)[1]

\* the calls of registerCommand that returned true once init() had resolved
LateRegistrations ==
    {i \in 1..Len(registered) : registered[i].ret /\ registered[i].started}

\* a request is dispatched in this step
Dispatches == exchange = Idle /\ exchange' # Idle

\* C7, as stated: every request dispatched by either adapter for the name of
\* a command whose registerCommand returned true after init() resolves to
\* that command.
C7LateVisibleAll ==
    [][Dispatches =>
         \A i \in LateRegistrations :
            RequestedName(exchange') = registered[i].cmd.cmd
              => exchange'.h.found = registered[i].cmd]_vars

\* the line adapter serves its built-in help under this first token before
\* it reads the registry
ReservedByLineAdapter == "help"

\* C7, amended: every JSON-RPC request, and every line whose first token is
\* not the line adapter's built-in "help", dispatched for the name of a
\* command whose registerCommand returned true after init() resolves to
\* that command.
C7LateVisible ==
    [][Dispatches =>
         \A i \in LateRegistrations :
            (/\ RequestedName(exchange') = registered[i].cmd.cmd
             /\ ~(exchange'.adapter = "cli"
                  /\ RequestedName(exchange') = ReservedByLineAdapter))
              => exchange'.h.found = registered[i].cmd]_vars

\* a request for the name of a late registration is being served by the
\* adapter, and it reached the command registered
ServesLate(adapter) ==
    /\ exchange # Idle
    /\ exchange.adapter = adapter
    /\ \E i \in LateRegistrations :
          /\ RequestedName(exchange) = registered[i].cmd.cmd
          /\ exchange.h.found = registered[i].cmd
          /\ exchange.h.invoked # <<>>

\* the case of C7: the line adapter has served a request for a command
\* registered after init(), and invoked its execution
C7WitnessLine == ServesLate("cli")

(***************************************************************************)
(* The JSON-RPC envelope.                                                  *)
(***************************************************************************)
\* the JSON-RPC adapter has answered the request being served
Answered ==
    exchange # Idle /\ exchange.adapter = "rpc" /\ exchange.stage = "responded"

\* the JSON-RPC request being served, before or after its answer
OnRpc == exchange # Idle /\ exchange.adapter = "rpc"

\* C8: a valid request whose method is not the name of a command of the
\* registry is answered -32601 "Method not found" with the id of the
\* request, and no execution is invoked.
C8MethodNotFound ==
    (/\ OnRpc
     /\ exchange.request.t # "array"
     /\ isValidJsonRpcRequest(exchange.request)
     /\ Get(exchange.request, "method").s \notin OwnNames(commands))
    => /\ exchange.stage = "responded"
       /\ exchange.h.invoked = <<>>
       /\ exchange.h.response.kind = "error"
       /\ exchange.h.response.code = -32601
       /\ exchange.h.response.message = "Method not found"
       /\ exchange.h.response.id = Get(exchange.request, "id")

\* C9: a body that is an array is answered at once with one error response
\* of code -32600 and id null, without a read of the registry, an
\* invocation of a parser or an execution.
C9BatchRejected ==
    (OnRpc /\ exchange.request.t = "array")
    => /\ exchange.stage = "responded"
       /\ exchange.h.response.kind = "error"
       /\ exchange.h.response.code = -32600
       /\ exchange.h.response.id = Null
       /\ ~exchange.h.looked
       /\ exchange.h.calls = <<>>
       /\ exchange.h.invoked = <<>>

\* the case of C9: the batch answered holds a valid request for a command
\* of the registry
C9Witness ==
    /\ Answered
    /\ exchange.request.t = "array"
    /\ \E i \in 1..Len(exchange.request.elems) :
          /\ isValidJsonRpcRequest(exchange.request.elems[i])
          /\ Lookup(commands, Get(exchange.request.elems[i], "method").s).t
               = "command"

\* C10: a body that is no array and no valid request is answered -32600,
\* with the id of the body when the body has one that is a string, a number
\* or null, and with id null otherwise.
C10InvalidRequestId ==
    (OnRpc /\ exchange.request.t # "array"
           /\ ~isValidJsonRpcRequest(exchange.request))
    => /\ exchange.stage = "responded"
       /\ exchange.h.response.kind = "error"
       /\ exchange.h.response.code = -32600
       /\ exchange.h.response.id =
            (IF Get(exchange.request, "id").t \in {"string", "number", "null"}
             THEN Get(exchange.request, "id") ELSE Null)

(***************************************************************************)
(* The JSON-RPC adapter: errors of materialization and of execution.       *)
(***************************************************************************)
\* the last parser invocation made for the request being served
LastCall == exchange.h.calls[Len(exchange.h.calls)]

\* the parser of the parameter key of the command reached
ParserOf(key) ==
    LET args == exchange.h.found.args
    IN  args[CHOOSE n \in 1..Len(args) : args[n].key = key].parser

\* materialization failed for the request being served: the last parser
\* invoked threw
MaterializationFailed ==
    /\ ServesCommand
    /\ exchange.h.calls # <<>>
    /\ ~Parse(ParserOf(LastCall[1]), LastCall[2]).ok

\* C11: a valid JSON-RPC request for a command whose materialization fails
\* on the parameter p with the parser's message m is answered with code
\* -32602, data "Parsing parameter 'p': m" and the id of the request, and
\* the execution is not invoked.
C11InvalidParams ==
    (OnRpc /\ MaterializationFailed)
    => /\ exchange.stage = "responded"
       /\ exchange.h.invoked = <<>>
       /\ exchange.h.response.kind = "error"
       /\ exchange.h.response.code = -32602
       /\ exchange.h.response.data =
            Str("Parsing parameter '" \o LastCall[1] \o "': "
                \o Parse(ParserOf(LastCall[1]), LastCall[2]).msg)
       /\ exchange.h.response.id = Get(exchange.request, "id")

\* the case of C11: the second parameter of a command fails on a value that
\* is too long, after the first was parsed
C11Witness ==
    /\ Answered
    /\ MaterializationFailed
    /\ Len(exchange.h.calls) = 2
    /\ Parse(ParserOf(LastCall[1]), LastCall[2]).msg
         = "Invalid string length, max length: 1"

\* the execution of the JSON-RPC request being served was invoked and has
\* failed: it threw, or the promise it returned was rejected
ExecutionFailed ==
    /\ Answered
    /\ exchange.h.invoked # <<>>
    /\ exchange.exec.kind \in {"reject", "throw"}

\* C12: a JSON-RPC request whose execution was invoked and failed with an
\* Error is answered with code -32000 and the message of the Error as
\* data, whatever the message is.
C12ExecutionError ==
    ExecutionFailed
    => /\ exchange.h.response.kind = "error"
       /\ exchange.h.response.code = -32000
       /\ exchange.h.response.data = Str(exchange.exec.value.message)

(***************************************************************************)
(* The line adapter: one response per line.                                *)
(***************************************************************************)
\* the line adapter is serving a line, or has served it
OnLine == exchange # Idle /\ exchange.adapter = "cli"

\* the text ends with the prompt
EndsWithPrompt(text) ==
    Len(text) >= 2 /\ SubSeq(text, Len(text) - 1, Len(text)) = "> "

\* C13: when the listener is done with a line (empty, blank, help, unknown
\* command, parameter failure, execution resolved, rejected or thrown),
\* one response ending with the prompt "> " has been written for it and
\* the process goes on serving.
C13OneResponsePerLine ==
    (OnLine /\ exchange.stage \in {"written", "uncaught"})
    => alive /\ EndsWithPrompt(exchange.written)

(***************************************************************************)
(* The line adapter: flags and unflagged tokens.                           *)
(***************************************************************************)
\* what minimist makes of the line being served
LineArgv == minimist(Tokens(exchange.request), StringKeys(exchange.h.found))

\* the parameter n of the command reached is bound by a flag of the line
BoundByFlag(n) ==
    ~IsNullish(FlagValue(LineArgv, exchange.h.found.args[n].key))

\* the number of positional parameters not bound by a flag among the first
\* n parameters of the command reached
UnboundSlots(n) ==
    Cardinality({m \in 1..n : exchange.h.found.args[m].base /\ ~BoundByFlag(m)})

\* the unflagged tokens of the line after the command name
UnflaggedTokens == Tail(LineArgv.underscore)

\* C16: in the line adapter the parser of a parameter bound by a flag is
\* invoked with the flag's value; the parser of the j-th positional
\* parameter not bound by a flag is invoked with the j-th unflagged token
\* after the command name when there is one; every other parser is invoked
\* with null or undefined.
C16FlagsThenTokens ==
    (OnLine /\ ServesCommand)
    => \A n \in 1..Len(exchange.h.calls) :
          /\ exchange.h.calls[n][1] = exchange.h.found.args[n].key
          /\ IF BoundByFlag(n)
             THEN exchange.h.calls[n][2]
                    = FlagValue(LineArgv, exchange.h.found.args[n].key)
             ELSE IF exchange.h.found.args[n].base
                     /\ UnboundSlots(n) <= Len(UnflaggedTokens)
             THEN exchange.h.calls[n][2] = Str(UnflaggedTokens[UnboundSlots(n)])
             ELSE IsNullish(exchange.h.calls[n][2])

(***************************************************************************)
(* The parsers.                                                            *)
(***************************************************************************)
\* the request being served reached a command and the parser of its first
\* parameter was invoked
FirstParsed == ServesCommand /\ exchange.h.calls # <<>>

\* the parser of the first parameter and the raw value it was invoked with
FirstParser == exchange.h.found.args[1].parser
FirstData == exchange.h.calls[1][2]

\* the request being served failed on its first parameter with the message
FirstFailsWith(msg) ==
    ReportsParsingError(exchange.h.found.args[1].key, msg)

\* the execution was invoked with the value v for the first parameter
FirstYields(v) ==
    /\ exchange.h.invoked # <<>>
    /\ exchange.h.invoked[1].args[exchange.h.found.args[1].key] = v

\* C19, as stated: a parser of any of the four kinds invoked with null or
\* undefined yields null when it is optional, and otherwise fails with the
\* message "missing value", whatever its bounds or values.
C19MissingValue ==
    (FirstParsed /\ IsNullish(FirstData))
    => IF FirstParser.optional THEN FirstYields(Null)
       ELSE FirstFailsWith("missing value")

\* C19, amended: a parser of any of the four kinds invoked with null or
\* undefined yields null when it is optional, and otherwise fails with the
\* message "Data is null", whatever its bounds or values.
C19DataIsNull ==
    (FirstParsed /\ IsNullish(FirstData))
    => IF FirstParser.optional THEN FirstYields(Null)
       ELSE FirstFailsWith("Data is null")

\* the case of C19: a big-integer parser with bounds that is not optional
\* is given no value, and the request is answered
C19Witness ==
    /\ FirstParsed
    /\ FirstData = Undefined
    /\ ~FirstParser.optional
    /\ FirstParser.kind = "bigint"
    /\ FirstParser.min.has
    /\ exchange.stage \in {"responded", "written"}

\* n is within the bounds of the parser p that are present
InBounds(p, n) ==
    /\ p.min.has => p.min.v <= n
    /\ p.max.has => n <= p.max.v

StopCalled ==
    (stopPc.pc = "idle" /\ stopPc'.pc = "stopping") =>
        \A adapter \in Adapters :
            AdapterIsRunning(ServerOf(adapter, tcpCliServer, rpcServer)) =>
                /\ adapter \in stopPc'.awaiting
                /\ ServerOf(adapter, tcpCliServer', rpcServer') = "closing"

\* the step where stop() resolves: every adapter it stopped has stopped,
\* and isRunning() is false
StopSettled ==
    (stopPc.pc = "stopping" /\ stopPc'.pc = "resolved") =>
        /\ \A adapter \in stopPc.awaiting :
               ServerOf(adapter, tcpCliServer', rpcServer') = "stopped"
        /\ ~isRunning(tcpCliServer', rpcServer')

\* C18: stop() initiates the stop of every running adapter without waiting
\* for the other to finish, resolves only after every adapter it stopped has
\* reported stopped, and when it resolves isRunning() is false.  Calls of
\* init() and stop() do not overlap.
C18StopAll == [][StopCalled /\ StopSettled]_vars

\* stop() has resolved after stopping both adapters
C18Witness ==
    /\ stopPc.pc = "resolved"
    /\ stopPc.awaiting = Adapters
    /\ ~isRunning(tcpCliServer, rpcServer)

\* the lines that have arrived on a connection, by their place in `pending`
OnConn(conn) ==
    {i \in DOMAIN pending :
        pending[i].x.adapter = "cli" /\ pending[i].conn = conn}

\* the responses written to a connection's socket
Responses(conn) == SelectSeq(socket[conn], LAMBDA w : w.what = "response")

\* C14: on one line connection at most one execution is outstanding, the
\* response of a line is written before the command of a later line is
\* invoked, and the responses are on the socket in the order of the lines.
C14Sequential ==
    \A conn \in Connections :
        /\ Cardinality({i \in OnConn(conn) :
                           pending[i].x.stage = "executing"}) <= 1
        /\ \A i, j \in OnConn(conn) :
               (i < j /\ pending[j].x.h.invoked # <<>>) =>
                   pending[i].x.stage = "written"
        /\ \A k \in 1..(Len(Responses(conn)) - 1) :
               Responses(conn)[k].from < Responses(conn)[k + 1].from

\* what was written to a connection's socket for the i-th request
WrittenFor(conn, i) == SelectSeq(socket[conn], LAMBDA w : w.from = i)

\* the emitted lines of the i-th request so far, each with a newline, in
\* call order, and then its response once it is written
EmitsThenResponse(i) ==
    [k \in 1..pending[i].emitted |->
        [from |-> i, what |-> "emit", text |-> pending[i].emits[k] \o "\n"]]
    \o (IF pending[i].x.stage = "written"
        THEN <<[from |-> i, what |-> "response",
                text |-> pending[i].x.written]>>
        ELSE <<>>)

\* C15: at every moment the socket of a line connection holds, for each of
\* its commands, the lines emitted so far, each followed by a newline, in
\* call order, and after them the rendered result once the execution has
\* settled; nothing is written to any socket for a JSON-RPC request.
C15EmitStreams ==
    \A i \in DOMAIN pending, conn \in Connections :
        WrittenFor(conn, i) =
            IF pending[i].x.adapter = "cli" /\ pending[i].conn = conn
            THEN EmitsThenResponse(i)
            ELSE <<>>

\* a line command and a JSON-RPC execution have both emitted two lines,
\* and the line command's result is written
C15Witness ==
    \E i, j \in DOMAIN pending :
        /\ pending[i].x.adapter = "cli"
        /\ pending[i].emitted = 2
        /\ pending[i].x.stage = "written"
        /\ pending[j].x.adapter = "rpc"
        /\ pending[j].emitted = 2

\* the i-th request has been answered
AnsweredAt(i) ==
    IF i <= Len(pending)
    THEN pending[i].x.stage \in {"written", "responded"}
    ELSE FALSE

ParsedBeforeInvoked(n) ==
    \E c \in CallsMade :
        /\ c[1] = exchange.h.invoked[1].cmd.args[n].key
        /\ Parse(exchange.h.invoked[1].cmd.args[n].parser, c[2]).ok

\* the request being served is one for which nothing may be invoked: its
\* envelope is invalid, it names no command of the registry, or a parser
\* invoked for it failed
NothingToInvoke ==
    \/ /\ exchange.adapter = "rpc"
       /\ \/ exchange.request.t = "array"
          \/ ~isValidJsonRpcRequest(exchange.request)
    \/ exchange.h.found.t # "command"
    \/ MaterializationFailed

\* C22: on both adapters the execution is invoked at most once for a
\* request, and only after the parser of every declared parameter of its
\* command has been run for the request and has returned; it is not invoked
\* when a parser fails, when no command has the name, or when the envelope
\* is invalid.
C22InvokedAfterParsers ==
    (exchange # Idle) =>
        /\ Len(exchange.h.invoked) <= 1
        /\ exchange.h.invoked # <<>> =>
               \A n \in 1..Len(exchange.h.invoked[1].cmd.args) :
                   ParsedBeforeInvoked(n)
        /\ NothingToInvoke => exchange.h.invoked = <<>>

(***************************************************************************)
(* init() that rejects.                                                    *)
(***************************************************************************)
\* C23: after init() has rejected because an adapter failed to start, no
\* adapter is left running: isRunning() is false.
C23RejectedInitStopsAll ==
    initPc = "rejected" => ~isRunning(tcpCliServer, rpcServer)

(***************************************************************************)
(* An adapter's isRunning().                                               *)
(***************************************************************************)
\* C21: for each adapter, after any start() and stop() calls and listener
\* outcomes, isRunning() is true only while a listener is being bound, is
\* bound or is closing, so not after a start() that rejected with the
\* listener's error; and a start() called after such a rejection is not
\* rejected with "Server already started".
C21RunningOnlyWhileBound ==
    \A adapter \in Adapters :
        /\ AdapterIsRunning(ServerOf(adapter, tcpCliServer, rpcServer)) =>
               ServerOf(adapter, tcpCliServer, rpcServer)
                   \in {"binding", "listening", "closing"}
        /\ starts[adapter] = "already started" =>
               ServerOf(adapter, tcpCliServer, rpcServer) # "failed"
=============================================================================
